---- MODULE Spec2Model ----
(***************************************************************************)
(* A model of the CCTV activity analyzer: CCTVAnalyzer (analyzer.py), the  *)
(* helpers of utils.py it calls, and the driver of main.py.                *)
(*                                                                         *)
(* One run of main.py is: construct the analyzer, open the video, process  *)
(* frames one at a time until the stream ends or 'q' is pressed, return    *)
(* the statistics, print the report.  A frame is processed atomically (the *)
(* program is single threaded), so one action is one pass of the loop.     *)
(*                                                                         *)
(* Numbers.  Bounding boxes are integers (astype(int)).  fps is modelled   *)
(* as a natural number, so int(fps * seconds) is fps * seconds.  The float *)
(* comparisons of the proximity check are done in integers, multiplied out *)
(* so that no fraction is left (see HorizontalProx, VerticalProx).  A      *)
(* duration in seconds is duration_frames / fps; events carry the frame    *)
(* difference, and the division is modelled by whether it raises           *)
(* ZeroDivisionError.  The local fps of analyze_video is the value it      *)
(* stores in stats["current_fps"].                                         *)
(***************************************************************************)
EXTENDS Integers, Sequences, FiniteSets, TLC

\* ------------------------------------------------------------------ bounds

\* Frames of a bounded stream (frame indices 0 .. MaxFrames - 1).
MaxFrames == 11
\* Frames of the long stream in which nothing is ever detected.
VacantFrames == 150
\* alert_duration_seconds ranges over 0 .. MaxSeconds.
MaxSeconds == 2
\* Box coordinates of the proximity inputs: x in 0 .. MaxX, y in 0 .. MaxY.
MaxX == 3
MaxY == 5
\* Longest detection list built from the small detection set.
MaxDet == 3

\* --------------------------------------------------------------- constants

PERSON_CLASS_ID == 0
MOBILE_CLASS_ID == 67
LAPTOP_CLASS_ID == 63
KEYBOARD_CLASS_ID == 66
FRAME_SKIP == 5

\* Values of the constructor's target_fps (main.py passes 60), and of the
\* frame rate the capture reports (0 when the container gives none).
TargetFpsValues == {0, 60}
CapFpsValues == {0, 1, 30}
AlertSecondsValues == 0 .. MaxSeconds

VARIABLES
    pc,                          \* where the run is
    video,                       \* the stream being read: "short" or "vacant"
    ALERT_DURATION_SECONDS,
    TARGET_FPS,
    alert_duration_frames,
    frame_count,
    off_camera_start_frame,
    mobile_in_hand_start_frame,
    last_person_present,
    last_mobile_in_hand,
    last_laptop_detected,
    stats,
    results,                     \* the detector's output (a local of one pass)
    current_activity,
    log,                         \* rows appended by log_event, with the frame index
    snaps,                       \* history: the snapshot consumed on each frame
    detector_runs,               \* history: per frame, the detector's snapshot or NoRun
    exit_reason,                 \* how the frame loop was left
    final_stats,                 \* main's final_stats: <<>> is None, <<s>> the dict s
    report                       \* what print_final_report printed: <<>> is nothing

vars == <<pc, video, ALERT_DURATION_SECONDS, TARGET_FPS, alert_duration_frames,
          frame_count, off_camera_start_frame, mobile_in_hand_start_frame,
          last_person_present, last_mobile_in_hand, last_laptop_detected, stats,
          results, current_activity, log, snaps, detector_runs, exit_reason,
          final_stats, report>>

\* ------------------------------------------------------------- detections

Det(c, b) == [cls |-> c, box |-> b]

\* Well-formed xyxy boxes on the grid (x1 <= x2, y1 <= y2; a box may be
\* degenerate after the truncation to integers).
Boxes ==
    {b \in (0 .. MaxX) \X (0 .. MaxY) \X (0 .. MaxX) \X (0 .. MaxY) :
        b[1] <= b[3] /\ b[2] <= b[4]}

RECURSIVE SeqsUpTo(_, _)
SeqsUpTo(S, n) ==
    IF n = 0 THEN {<<>>}
    ELSE LET shorter == SeqsUpTo(S, n - 1)
         IN  shorter \cup {Append(s, d) : s \in shorter, d \in S}

Abs(x) == IF x < 0 THEN -x ELSE x
Max(a, b) == IF a >= b THEN a ELSE b
Min(a, b) == IF a <= b THEN a ELSE b
\* Python's int() of a float: truncation toward zero of num / den (den > 0).
IntDiv(num, den) == IF num >= 0 THEN num \div den ELSE -((-num) \div den)

\* ------------------------------------------------- the proximity classifier

\* py_mobile_zone = py1 + int((py2 - py1) * 0.20)
PyMobileZone(p_box) == p_box[2] + IntDiv(p_box[4] - p_box[2], 5)

\* abs(m_center_x - p_center_x) < p_width * 0.6, with the centres
\* (x1 + x2) / 2; both sides times 10.
HorizontalProx(p_box, m_box) ==
    5 * Abs((m_box[1] + m_box[3]) - (p_box[1] + p_box[3])) < 6 * (p_box[3] - p_box[1])

\* m_center_y > py_mobile_zone, with m_center_y = (my1 + my2) / 2; both
\* sides times 2.
VerticalProx(p_box, m_box) == m_box[2] + m_box[4] > 2 * PyMobileZone(p_box)

\* touches = max(0, min(px2, mx2) - max(px1, mx1))
\*         * max(0, min(py2, my2) - max(py1, my1)) > 0
TouchesNonNegative(p_box, m_box) ==
    Max(0, Min(p_box[3], m_box[3]) - Max(p_box[1], m_box[1]))
    * Max(0, Min(p_box[4], m_box[4]) - Max(p_box[2], m_box[2])) >= 0
Touches(p_box, m_box) ==
    Max(0, Min(p_box[3], m_box[3]) - Max(p_box[1], m_box[1]))
    * Max(0, Min(p_box[4], m_box[4]) - Max(p_box[2], m_box[2])) > 0

PairInHand(p_box, m_box) ==
    HorizontalProx(p_box, m_box) /\ VerticalProx(p_box, m_box) /\ Touches(p_box, m_box)

\* person_boxes: the person boxes in the detector's order.
PersonBoxes(res) ==
    LET F[i \in 0 .. Len(res)] ==
            IF i = 0 THEN <<>>
            ELSE IF res[i].cls = PERSON_CLASS_ID THEN Append(F[i - 1], res[i].box)
            ELSE F[i - 1]
    IN  F[Len(res)]

LaptopKeyboardDetected(res) ==
    \E i \in 1 .. Len(res) : res[i].cls \in {LAPTOP_CLASS_ID, KEYBOARD_CLASS_ID}

\* The inner loop over the boxes for one person box, from box j on: TRUE when
\* it breaks on a qualifying mobile box.
RECURSIVE MobileLoopFirstOnly(_, _, _)
MobileLoopFirstOnly(p_box, res, j) ==
    IF j > Len(res) THEN FALSE
    ELSE IF res[j].cls = MOBILE_CLASS_ID THEN PairInHand(p_box, res[j].box)
    ELSE MobileLoopFirstOnly(p_box, res, j + 1)
RECURSIVE MobileLoop(_, _, _)
MobileLoop(p_box, res, j) ==
    IF j > Len(res) THEN FALSE
    ELSE IF res[j].cls = MOBILE_CLASS_ID /\ PairInHand(p_box, res[j].box) THEN TRUE
    ELSE MobileLoop(p_box, res, j + 1)

\* The outer loop over person_boxes, from person i on; it breaks as soon as
\* the inner loop has set mobile_event_draw_boxes.
RECURSIVE PersonLoop(_, _, _)
PersonLoop(p_boxes, res, i) ==
    IF i > Len(p_boxes) THEN FALSE
    ELSE IF MobileLoop(p_boxes[i], res, 1) THEN TRUE
    ELSE PersonLoop(p_boxes, res, i + 1)

MobileInHandAnyPhone(res) == \E k \in 1 .. Len(res) : res[k].cls = MOBILE_CLASS_ID
MobileInHandCurrent(res) == PersonLoop(PersonBoxes(res), res, 1)

\* The snapshot a detector run stores in last_person_present,
\* last_mobile_in_hand and last_laptop_detected.
Detect(res) ==
    [person |-> Len(PersonBoxes(res)) > 0,
     mobile |-> MobileInHandCurrent(res),
     laptop |-> LaptopKeyboardDetected(res)]

\* -------------------------------------------------------- the frame loop

Event(label, frame, duration_frames) ==
    [label |-> label, frame |-> frame, duration_frames |-> duration_frames]

\* The detector runs on this frame.
RunDetectorShifted(fc) == fc % FRAME_SKIP = 1
RunDetector(fc) == fc % FRAME_SKIP = 0

\* 1. Mobile duration (debounce).  raised: duration_frames / fps divided by 0.
MobileTrackerNoGuard(mobile_in_hand_state, start, fc, rate) ==
    IF mobile_in_hand_state
    THEN [start |-> fc, events |-> <<Event("mobile_in_hand_start", fc, 0)>>,
          raised |-> FALSE]
    ELSE IF start # -1
    THEN IF rate = 0
         THEN [start |-> start, events |-> <<>>, raised |-> TRUE]
         ELSE [start |-> -1,
               events |-> <<Event("mobile_in_hand_end", fc, fc - start)>>,
               raised |-> FALSE]
    ELSE [start |-> start, events |-> <<>>, raised |-> FALSE]
MobileTrackerKeepStart(mobile_in_hand_state, start, fc, rate) ==
    IF mobile_in_hand_state /\ start = -1
    THEN [start |-> fc, events |-> <<Event("mobile_in_hand_start", fc, 0)>>,
          raised |-> FALSE]
    ELSE IF ~mobile_in_hand_state /\ start # -1
    THEN IF rate = 0
         THEN [start |-> start, events |-> <<>>, raised |-> TRUE]
         ELSE [start |-> start,
               events |-> <<Event("mobile_in_hand_end", fc, fc - start)>>,
               raised |-> FALSE]
    ELSE [start |-> start, events |-> <<>>, raised |-> FALSE]
MobileTracker(mobile_in_hand_state, start, fc, rate) ==
    IF mobile_in_hand_state /\ start = -1
    THEN [start |-> fc, events |-> <<Event("mobile_in_hand_start", fc, 0)>>,
          raised |-> FALSE]
    ELSE IF ~mobile_in_hand_state /\ start # -1
    THEN IF rate = 0
         THEN [start |-> start, events |-> <<>>, raised |-> TRUE]
         ELSE [start |-> -1,
               events |-> <<Event("mobile_in_hand_end", fc, fc - start)>>,
               raised |-> FALSE]
    ELSE [start |-> start, events |-> <<>>, raised |-> FALSE]

\* 2. Hierarchical activity inference: the label and the cumulative counters.
CurrentActivityLaptopFirst(snap) ==
    IF snap.person
    THEN IF snap.laptop THEN "Working on Laptop"
         ELSE IF snap.mobile THEN "Using Mobile Phone"
         ELSE "Present (Idle/Other)"
    ELSE "Off-Camera/Missing"
CurrentActivity(snap) ==
    IF snap.person
    THEN IF snap.mobile THEN "Using Mobile Phone"
         ELSE IF snap.laptop THEN "Working on Laptop"
         ELSE "Present (Idle/Other)"
    ELSE "Off-Camera/Missing"

UpdateCountersLaptopFirst(st, snap) ==
    IF snap.person
    THEN IF snap.laptop
         THEN [st EXCEPT !.working_frames = @ + 1]
         ELSE IF snap.mobile
         THEN [st EXCEPT !.mobile_in_hand_frames = @ + 1]
         ELSE st
    ELSE [st EXCEPT !.off_camera_frames = @ + 1]
UpdateCounters(st, snap) ==
    IF snap.person
    THEN IF snap.mobile
         THEN [st EXCEPT !.mobile_in_hand_frames = @ + 1]
         ELSE IF snap.laptop
         THEN [st EXCEPT !.working_frames = @ + 1]
         ELSE st
    ELSE [st EXCEPT !.off_camera_frames = @ + 1]

\* The off-camera tracker: reset when the person is present, else the missing
\* alert logic.  raised: duration_frames / fps divided by 0.
OffCameraTrackerNoRecovery(is_person_present, start, fc, threshold, rate) ==
    IF is_person_present
    THEN [start |-> start, events |-> <<>>, raised |-> FALSE]
    ELSE LET started == IF start = -1 THEN fc ELSE start
             duration_frames == fc - started
         IN  IF duration_frames >= threshold
             THEN IF rate = 0
                  THEN [start |-> started, events |-> <<>>, raised |-> TRUE]
                  ELSE [start |-> -1,
                        events |-> <<Event("person_missing_alert", fc,
                                           duration_frames)>>,
                        raised |-> FALSE]
             ELSE [start |-> started, events |-> <<>>, raised |-> FALSE]
OffCameraTrackerStrict(is_person_present, start, fc, threshold, rate) ==
    IF is_person_present
    THEN [start |-> -1, events |-> <<>>, raised |-> FALSE]
    ELSE LET started == IF start = -1 THEN fc ELSE start
             duration_frames == fc - started
         IN  IF duration_frames > threshold
             THEN IF rate = 0
                  THEN [start |-> started, events |-> <<>>, raised |-> TRUE]
                  ELSE [start |-> -1,
                        events |-> <<Event("person_missing_alert", fc,
                                           duration_frames)>>,
                        raised |-> FALSE]
             ELSE [start |-> started, events |-> <<>>, raised |-> FALSE]
OffCameraTrackerRestart(is_person_present, start, fc, threshold, rate) ==
    IF is_person_present
    THEN [start |-> -1, events |-> <<>>, raised |-> FALSE]
    ELSE IF 0 >= threshold
    THEN IF rate = 0
         THEN [start |-> fc, events |-> <<>>, raised |-> TRUE]
         ELSE [start |-> -1, events |-> <<Event("person_missing_alert", fc, 0)>>,
               raised |-> FALSE]
    ELSE [start |-> fc, events |-> <<>>, raised |-> FALSE]
OffCameraTrackerInclusive(is_person_present, start, fc, threshold, rate) ==
    IF is_person_present
    THEN [start |-> -1, events |-> <<>>, raised |-> FALSE]
    ELSE LET started == IF start = -1 THEN fc ELSE start
             duration_frames == fc - started + 1
         IN  IF duration_frames >= threshold
             THEN IF rate = 0
                  THEN [start |-> started, events |-> <<>>, raised |-> TRUE]
                  ELSE [start |-> -1,
                        events |-> <<Event("person_missing_alert", fc,
                                           duration_frames)>>,
                        raised |-> FALSE]
             ELSE [start |-> started, events |-> <<>>, raised |-> FALSE]
OffCameraTracker(is_person_present, start, fc, threshold, rate) ==
    IF is_person_present
    THEN [start |-> -1, events |-> <<>>, raised |-> FALSE]
    ELSE LET started == IF start = -1 THEN fc ELSE start
             duration_frames == fc - started
         IN  IF duration_frames >= threshold
             THEN IF rate = 0
                  THEN [start |-> started, events |-> <<>>, raised |-> TRUE]
                  ELSE [start |-> -1,
                        events |-> <<Event("person_missing_alert", fc,
                                           duration_frames)>>,
                        raised |-> FALSE]
             ELSE [start |-> started, events |-> <<>>, raised |-> FALSE]

\* D. The missing-alert timer of the display divides by fps when the person
\* is absent.
DisplayRaises(is_person_present, rate) == ~is_person_present /\ rate = 0

\* E. Loop control: frame_count += 1, then the key is read.
LoopControlBreakFirst(fc, key) ==
    [frame_count |-> IF key = "q" THEN fc ELSE fc + 1, stop |-> key = "q"]
LoopControl(fc, key) == [frame_count |-> fc + 1, stop |-> key = "q"]

\* ------------------------------------------------------------- the report

\* frames_to_time_str: <<hours, minutes, seconds>>, each printed with two digits.
FramesToTimeStr(frames, rate) ==
    IF rate = 0 THEN <<0, 0, 0>>
    ELSE <<frames \div (rate * 3600),
           ((frames \div rate) % 3600) \div 60,
           (frames \div rate) % 60>>

\* counter / total_frames * 100 as the fraction <<numerator, denominator>>; a
\* denominator of 0 stands for the division raising ZeroDivisionError.
PercentNoGuard(counter, total_frames) == <<counter * 100, total_frames>>
Percent(counter, total_frames) ==
    IF total_frames > 0 THEN <<counter * 100, total_frames>> ELSE <<0, 1>>

PrintFinalReport(st) ==
    [total_time |-> FramesToTimeStr(st.total_video_frames, st.current_fps),
     off_camera_time |-> FramesToTimeStr(st.off_camera_frames, st.current_fps),
     off_camera_percent |-> Percent(st.off_camera_frames, st.total_video_frames),
     mobile_time |-> FramesToTimeStr(st.mobile_in_hand_frames, st.current_fps),
     mobile_percent |-> Percent(st.mobile_in_hand_frames, st.total_video_frames),
     working_time |-> FramesToTimeStr(st.working_frames, st.current_fps),
     working_percent |-> Percent(st.working_frames, st.total_video_frames)]

\* main.py: `if final_stats:`; None is falsy, the stats dict (never empty) truthy.
Truthy(value) == Len(value) > 0

\* ------------------------------------------------------------- the inputs

\* A person, a phone held at the person's chest, a phone beside the person's
\* head, a laptop and a keyboard.
SceneList ==
    <<Det(PERSON_CLASS_ID, <<0, 0, 3, 5>>),
      Det(MOBILE_CLASS_ID, <<1, 2, 2, 3>>),
      Det(MOBILE_CLASS_ID, <<0, 0, 1, 1>>),
      Det(LAPTOP_CLASS_ID, <<0, 3, 3, 5>>),
      Det(KEYBOARD_CLASS_ID, <<0, 4, 3, 5>>)>>

SubList(S) ==
    LET F[i \in 0 .. Len(SceneList)] ==
            IF i = 0 THEN <<>>
            ELSE IF i \in S THEN Append(F[i - 1], SceneList[i])
            ELSE F[i - 1]
    IN  F[Len(SceneList)]

\* What the detector may return on a frame of a bounded stream: any of these
\* objects, present or not.
Scenes == {SubList(S) : S \in SUBSET (1 .. Len(SceneList))}

Videos == {"short", "vacant"}
FrameLimit(v) == IF v = "vacant" THEN VacantFrames ELSE MaxFrames
SceneSet(v) == IF v = "vacant" THEN {<<>>} ELSE Scenes
Keys == {"q", "none"}

\* ---------------------------------------------------------- the program

InitialStats(target_fps) ==
    [total_video_frames |-> 0, off_camera_frames |-> 0, mobile_in_hand_frames |-> 0,
     working_frames |-> 0, current_fps |-> target_fps]

\* CCTVAnalyzer.__init__, called by main.py.
Init ==
    /\ pc = "constructed"
    /\ video \in Videos
    /\ ALERT_DURATION_SECONDS \in AlertSecondsValues
    /\ TARGET_FPS \in TargetFpsValues
    /\ alert_duration_frames = 0
    /\ frame_count = 0
    /\ off_camera_start_frame = -1
    /\ mobile_in_hand_start_frame = -1
    /\ last_person_present = FALSE
    /\ last_mobile_in_hand = FALSE
    /\ last_laptop_detected = FALSE
    /\ stats = InitialStats(TARGET_FPS)
    /\ results = <<>>
    /\ current_activity = "N/A"
    /\ log = <<>>
    /\ snaps = <<>>
    /\ detector_runs = <<>>
    /\ exit_reason = "none"
    /\ final_stats = <<>>
    /\ report = <<>>

\* What analyze_video returns when the source cannot be opened: a bare
\* `return`, None.
OpenFailureResultStats(st) == <<st>>
OpenFailureResult(st) == <<>>

\* analyze_video: the source cannot be opened; the error is printed and None
\* returned.
OpenFails ==
    /\ pc = "constructed"
    /\ pc' = "returned"
    /\ exit_reason' = "unopened"
    /\ final_stats' = OpenFailureResult(stats)
    /\ UNCHANGED <<video, ALERT_DURATION_SECONDS, TARGET_FPS, alert_duration_frames,
                   frame_count, off_camera_start_frame, mobile_in_hand_start_frame,
                   last_person_present, last_mobile_in_hand, last_laptop_detected,
                   stats, results, current_activity, log, snaps, detector_runs,
                   report>>

\* fps = cap.get(CAP_PROP_FPS) or self.TARGET_FPS
EffectiveFps(cap_fps, target_fps) == IF cap_fps # 0 THEN cap_fps ELSE target_fps

\* analyze_video: the source opens; fps and the alert threshold are set.  (The
\* VideoWriter may fail to open: a warning, and no other effect on this state.)
OpenVideo ==
    /\ pc = "constructed"
    /\ \E cap_fps \in CapFpsValues :
         LET rate == EffectiveFps(cap_fps, TARGET_FPS)
         IN  /\ stats' = [stats EXCEPT !.current_fps = rate]
             /\ alert_duration_frames' = rate * ALERT_DURATION_SECONDS
    /\ pc' = "loop"
    /\ UNCHANGED <<video, ALERT_DURATION_SECONDS, TARGET_FPS, frame_count,
                   off_camera_start_frame, mobile_in_hand_start_frame,
                   last_person_present, last_mobile_in_hand, last_laptop_detected,
                   results, current_activity, log, snaps, detector_runs, exit_reason,
                   final_stats, report>>

\* One pass of the frame loop: cap.read() gave a frame, on which the detector
\* (when it runs) returns `res`, and the key read at the end of the pass is
\* `key`.  `res` is a local of the pass, dead when the pass ends.
ProcessFrame ==
    /\ pc = "loop"
    /\ frame_count < FrameLimit(video)
    /\ \E res \in (IF RunDetector(frame_count) THEN SceneSet(video) ELSE {<<>>}),
          key \in Keys :
         LET rate == stats.current_fps
             ran == RunDetector(frame_count)
             snap == IF ran THEN Detect(res)
                     ELSE [person |-> last_person_present,
                           mobile |-> last_mobile_in_hand,
                           laptop |-> last_laptop_detected]
             counted == [stats EXCEPT !.total_video_frames = frame_count + 1]
             mt == MobileTracker(snap.mobile, mobile_in_hand_start_frame,
                                 frame_count, rate)
             ot == OffCameraTracker(snap.person, off_camera_start_frame,
                                    frame_count, alert_duration_frames, rate)
             lc == LoopControl(frame_count, key)
         IN  /\ results' = results
             /\ last_person_present' = snap.person
             /\ last_mobile_in_hand' = snap.mobile
             /\ last_laptop_detected' = snap.laptop
             /\ snaps' = Append(snaps, snap)
             /\ detector_runs' = Append(detector_runs, IF ran THEN <<Detect(res)>> ELSE <<>>)
             /\ mobile_in_hand_start_frame' = mt.start
             /\ IF mt.raised
                THEN /\ pc' = "raised"
                     /\ stats' = counted
                     /\ log' = log
                     /\ UNCHANGED <<off_camera_start_frame, current_activity, frame_count,
                                    exit_reason, final_stats>>
                ELSE /\ stats' = UpdateCounters(counted, snap)
                     /\ current_activity' = CurrentActivity(snap)
                     /\ off_camera_start_frame' = ot.start
                     /\ IF ot.raised \/ DisplayRaises(snap.person, rate)
                        THEN /\ pc' = "raised"
                             /\ log' = log \o mt.events \o ot.events
                             /\ UNCHANGED <<frame_count, exit_reason, final_stats>>
                        ELSE /\ log' = log \o mt.events \o ot.events
                             /\ frame_count' = lc.frame_count
                             /\ IF lc.stop
                                THEN /\ pc' = "returned"
                                     /\ exit_reason' = "stop"
                                     /\ final_stats' = <<stats'>>
                                ELSE /\ pc' = "loop"
                                     /\ UNCHANGED <<exit_reason, final_stats>>
    /\ UNCHANGED <<video, ALERT_DURATION_SECONDS, TARGET_FPS, alert_duration_frames,
                   report>>

\* cap.read() reports the end of the stream: cleanup, and the stats returned.
EndOfStream ==
    /\ pc = "loop"
    /\ pc' = "returned"
    /\ exit_reason' = "eos"
    /\ final_stats' = <<stats>>
    /\ UNCHANGED <<video, ALERT_DURATION_SECONDS, TARGET_FPS, alert_duration_frames,
                   frame_count, off_camera_start_frame, mobile_in_hand_start_frame,
                   last_person_present, last_mobile_in_hand, last_laptop_detected,
                   stats, results, current_activity, log, snaps, detector_runs,
                   report>>

\* main.py: the report is printed when analyze_video returned the stats.
MainReport ==
    /\ pc = "returned"
    /\ pc' = "exit"
    /\ report' = IF Truthy(final_stats) THEN <<PrintFinalReport(final_stats[1])>>
                 ELSE <<>>
    /\ UNCHANGED <<video, ALERT_DURATION_SECONDS, TARGET_FPS, alert_duration_frames,
                   frame_count, off_camera_start_frame, mobile_in_hand_start_frame,
                   last_person_present, last_mobile_in_hand, last_laptop_detected,
                   stats, results, current_activity, log, snaps, detector_runs,
                   exit_reason, final_stats>>

Next == OpenFails \/ OpenVideo \/ ProcessFrame \/ EndOfStream \/ MainReport

Spec == Init /\ [][Next]_vars

\* ------------------------------------- the detection block on its own

\* The objects of SceneList and a second, small person away from the phones.
DetectObjects ==
    {SceneList[i] : i \in 1 .. Len(SceneList)} \cup {Det(PERSON_CLASS_ID, <<2, 0, 3, 1>>)}

\* Detector outputs for the proximity check: a person and a phone anywhere on
\* the grid, and the short lists, in every order, over DetectObjects.
DetectInputs ==
    {<<Det(PERSON_CLASS_ID, p), Det(MOBILE_CLASS_ID, m)>> : p \in Boxes, m \in Boxes}
    \cup SeqsUpTo(DetectObjects, MaxDet)

InitDetect ==
    /\ pc = "detect"
    /\ video = "short"
    /\ ALERT_DURATION_SECONDS = 0
    /\ TARGET_FPS = 60
    /\ alert_duration_frames = 0
    /\ frame_count = 0
    /\ off_camera_start_frame = -1
    /\ mobile_in_hand_start_frame = -1
    /\ last_person_present = FALSE
    /\ last_mobile_in_hand = FALSE
    /\ last_laptop_detected = FALSE
    /\ stats = InitialStats(TARGET_FPS)
    /\ results \in DetectInputs
    /\ current_activity = "N/A"
    /\ log = <<>>
    /\ snaps = <<>>
    /\ detector_runs = <<>>
    /\ exit_reason = "none"
    /\ final_stats = <<>>
    /\ report = <<>>

\* Section A of the loop body on a sampled frame: the detector returned
\* `results`, and the snapshot is stored.
DetectFrame ==
    /\ pc = "detect"
    /\ RunDetector(frame_count)
    /\ pc' = "detected"
    /\ last_person_present' = Detect(results).person
    /\ last_mobile_in_hand' = Detect(results).mobile
    /\ last_laptop_detected' = Detect(results).laptop
    /\ UNCHANGED <<video, ALERT_DURATION_SECONDS, TARGET_FPS, alert_duration_frames,
                   frame_count, off_camera_start_frame, mobile_in_hand_start_frame,
                   stats, results, current_activity, log, snaps, detector_runs,
                   exit_reason, final_stats, report>>

NextDetect == DetectFrame

SpecDetect == InitDetect /\ [][NextDetect]_vars

\* ------------------------------------------------------------ properties

\* The snapshot consumed on frame i (frames are numbered from 0).
Snap(i) == snaps[i + 1]
\* Frame i was processed to the end of the pass.
Completed(i) == 0 <= i /\ i < frame_count
\* The loop was left by the end of the stream or by a stop request.
LoopExited == exit_reason \in {"eos", "stop"}
\* The rows of the log with one of `labels`, logged on a frame of `frames`.
Rows(labels, frames) ==
    {k \in 1 .. Len(log) : log[k].label \in labels /\ log[k].frame \in frames}
MobileLabels == {"mobile_in_hand_start", "mobile_in_hand_end"}
AlertLabel == {"person_missing_alert"}

\* mobile_in_hand is false on frame f - 1, true on the K frames f .. f + K - 1
\* and false on frame f + K, all of them processed.
MobileRun(f, K) ==
    /\ f >= 1 /\ K >= 1
    /\ Completed(f + K)
    /\ ~Snap(f - 1).mobile
    /\ \A i \in f .. (f + K - 1) : Snap(i).mobile
    /\ ~Snap(f + K).mobile

\* C1: when mobile_in_hand is false, then true on exactly K >= 1 consecutive
\* frames from frame f, then false on frame f + K, the log holds exactly two
\* mobile rows for the frames f .. f + K: one mobile_in_hand_start logged on
\* frame f with duration 0 and one mobile_in_hand_end logged on frame f + K
\* with a duration of K frames.
C1_MobileDebounce ==
    \A f \in {g \in 1 .. (frame_count - 1) : ~Snap(g - 1).mobile /\ Snap(g).mobile} :
      \A K \in 1 .. (frame_count - f) :
        MobileRun(f, K) =>
            LET rows == Rows(MobileLabels, f .. (f + K))
            IN  /\ Cardinality(rows) = 2
                /\ \E a \in rows : log[a] = Event("mobile_in_hand_start", f, 0)
                /\ \E b \in rows : log[b] = Event("mobile_in_hand_end", f + K, K)

C1_Witness ==
    \E f \in 1 .. frame_count :
        /\ MobileRun(f, FRAME_SKIP)
        /\ \E b \in 1 .. Len(log) :
               log[b] = Event("mobile_in_hand_end", f + FRAME_SKIP, FRAME_SKIP)

\* C2: when the frame loop has been left (end of stream or stop request), the
\* log holds as many mobile_in_hand_end rows as mobile_in_hand_start rows
\* (stated for the runs with a frame rate above 0, where no division raises).
C2_StartsMatchEnds ==
    (LoopExited /\ stats.current_fps > 0) =>
        Cardinality(Rows({"mobile_in_hand_end"}, 0 .. frame_count))
        = Cardinality(Rows({"mobile_in_hand_start"}, 0 .. frame_count))

\* The person is absent on every frame of a .. b, and on no frame next to it.
MaximalAbsentRun(a, b) ==
    /\ 0 <= a /\ a <= b /\ Completed(b)
    /\ \A i \in a .. b : ~Snap(i).person
    /\ a = 0 \/ Snap(a - 1).person
    /\ \/ b + 1 = frame_count /\ LoopExited
       \/ Completed(b + 1) /\ Snap(b + 1).person

\* C3: with a threshold T = alert_duration_frames >= 1, a maximal run of
\* M * T + r absent frames (0 <= r < T) logs exactly M person_missing_alert
\* rows on the frames of the run.
C3_AlertPeriodicity ==
    alert_duration_frames >= 1 =>
        \A a \in 0 .. frame_count, b \in 0 .. frame_count :
            MaximalAbsentRun(a, b) =>
                Cardinality(Rows(AlertLabel, a .. b))
                = (b - a + 1) \div alert_duration_frames

\* C4: fps = 30, alert_duration_seconds = 2, nobody in view on the 150 frames
\* of the stream: the alerts logged are one on frame 59 and one on frame 119,
\* each of 60 frames, and no other.
C4_Scenario ==
    ( /\ video = "vacant"
      /\ stats.current_fps = 30
      /\ ALERT_DURATION_SECONDS = 2
      /\ exit_reason = "eos"
      /\ frame_count = 150 ) =>
        /\ Cardinality(Rows(AlertLabel, 0 .. frame_count)) = 2
        /\ \E k \in 1 .. Len(log) : log[k] = Event("person_missing_alert", 59, 60)
        /\ \E k \in 1 .. Len(log) : log[k] = Event("person_missing_alert", 119, 60)

\* The processed frames whose snapshot satisfies P.
FramesWhere(P(_)) == {i \in 0 .. (frame_count - 1) : P(Snap(i))}
IsAbsent(snap) == ~snap.person
IsMobile(snap) == snap.person /\ snap.mobile
IsWorking(snap) == snap.person /\ ~snap.mobile /\ snap.laptop
IsIdle(snap) == snap.person /\ ~snap.mobile /\ ~snap.laptop

CountersPartition ==
    pc # "raised" =>
        /\ stats.total_video_frames = frame_count
        /\ stats.total_video_frames = Len(snaps)
        /\ stats.off_camera_frames = Cardinality(FramesWhere(IsAbsent))
        /\ stats.mobile_in_hand_frames = Cardinality(FramesWhere(IsMobile))
        /\ stats.working_frames = Cardinality(FramesWhere(IsWorking))
        /\ stats.off_camera_frames + stats.mobile_in_hand_frames + stats.working_frames
           + Cardinality(FramesWhere(IsIdle)) = stats.total_video_frames
        /\ stats.off_camera_frames + stats.mobile_in_hand_frames + stats.working_frames
           <= stats.total_video_frames

CountersGrow ==
    /\ stats'.total_video_frames >= stats.total_video_frames
    /\ stats'.off_camera_frames >= stats.off_camera_frames
    /\ stats'.mobile_in_hand_frames >= stats.mobile_in_hand_frames
    /\ stats'.working_frames >= stats.working_frames

\* C5: between frames, total_video_frames is the number of frames processed,
\* off_camera_frames the number of them with the person absent,
\* mobile_in_hand_frames and working_frames the numbers of frames with the
\* person present that the hierarchy gives to the phone and to the laptop,
\* the remaining present frames are counted nowhere, so the three counters
\* sum to at most the total; and no counter ever decreases.
C5_CounterPartition == [](CountersPartition) /\ [][CountersGrow]_vars

C5_Witness ==
    /\ pc = "loop"
    /\ stats.mobile_in_hand_frames > 0
    /\ stats.working_frames > 0
    /\ \E i \in 0 .. (frame_count - 1) : Snap(i).mobile /\ Snap(i).laptop
    /\ stats.off_camera_frames + stats.mobile_in_hand_frames + stats.working_frames
       < stats.total_video_frames

\* C6: the detector runs on frame i exactly when i mod FRAME_SKIP = 0; the
\* snapshot consumed on frame i is the detector's result on frame
\* FRAME_SKIP * (i div FRAME_SKIP), never the constructor's values; and the
\* cached snapshot is the one the last frame consumed.
C6_SamplerCaching ==
    /\ \A i \in 0 .. (Len(snaps) - 1) :
           LET sampled == FRAME_SKIP * (i \div FRAME_SKIP)
           IN  /\ (detector_runs[i + 1] # <<>>) <=> (i % FRAME_SKIP = 0)
               /\ detector_runs[sampled + 1] # <<>>
               /\ Snap(i) = detector_runs[sampled + 1][1]
    /\ Len(snaps) > 0 =>
           snaps[Len(snaps)] = [person |-> last_person_present,
                                mobile |-> last_mobile_in_hand,
                                laptop |-> last_laptop_detected]

C6_Witness ==
    /\ frame_count > FRAME_SKIP + 1
    /\ Snap(FRAME_SKIP + 1) = detector_runs[FRAME_SKIP + 1][1]
    /\ Snap(FRAME_SKIP + 1) # Snap(0)
    /\ Snap(0).person

\* The detector returned one person box and one mobile box.
OnePair == Len(results) = 2 /\ results[1].cls = PERSON_CLASS_ID
           /\ results[2].cls = MOBILE_CLASS_ID
\* The mobile box's vertical centre (my1 + my2) / 2 is exactly py1 + 0.2 * (py2 - py1).
CentreOnLine(p_box, m_box) ==
    5 * (m_box[2] + m_box[4]) = 10 * p_box[2] + 2 * (p_box[4] - p_box[2])

\* C7: a pair that satisfies the horizontal proximity and the overlap
\* conditions, with the mobile box's vertical centre exactly on the line 20%
\* down the person box, gives mobile_in_hand true.
C7_BoundaryInHand ==
    ( /\ pc = "detected"
      /\ OnePair
      /\ HorizontalProx(results[1].box, results[2].box)
      /\ Touches(results[1].box, results[2].box)
      /\ CentreOnLine(results[1].box, results[2].box) ) => last_mobile_in_hand

\* The boxes share a unit cell of the grid: their intersection has an area > 0.
PositiveIntersection(p_box, m_box) ==
    \E x \in 0 .. MaxX, y \in 0 .. MaxY :
        /\ p_box[1] <= x /\ x + 1 <= p_box[3] /\ p_box[2] <= y /\ y + 1 <= p_box[4]
        /\ m_box[1] <= x /\ x + 1 <= m_box[3] /\ m_box[2] <= y /\ y + 1 <= m_box[4]
\* The boxes meet (in an edge, a corner or more).
Meet(p_box, m_box) ==
    /\ Max(p_box[1], m_box[1]) <= Min(p_box[3], m_box[3])
    /\ Max(p_box[2], m_box[2]) <= Min(p_box[4], m_box[4])

\* C8: when no (person, mobile) pair of the detections has an intersection of
\* positive area, the detector run stores mobile_in_hand false.
C8_ZeroOverlapNeverInHand ==
    pc = "detected" =>
        ( (\A i \in 1 .. Len(results), j \in 1 .. Len(results) :
              (results[i].cls = PERSON_CLASS_ID /\ results[j].cls = MOBILE_CLASS_ID)
                  => ~PositiveIntersection(results[i].box, results[j].box))
          => ~last_mobile_in_hand )

C8_Witness ==
    /\ pc = "detected"
    /\ OnePair
    /\ HorizontalProx(results[1].box, results[2].box)
    /\ VerticalProx(results[1].box, results[2].box)
    /\ Meet(results[1].box, results[2].box)
    /\ ~PositiveIntersection(results[1].box, results[2].box)
    /\ last_person_present
    /\ ~last_mobile_in_hand

\* C9: when the source cannot be opened, analyze_video returns None with no
\* frame processed, no row logged and no counter changed, and main prints no
\* report.
C9_UnreadableSource ==
    exit_reason = "unopened" =>
        /\ pc \in {"returned", "exit"}
        /\ final_stats = <<>>
        /\ frame_count = 0
        /\ snaps = <<>>
        /\ log = <<>>
        /\ stats = InitialStats(TARGET_FPS)
        /\ report = <<>>

C9_Witness == exit_reason = "unopened" /\ pc = "exit" /\ report = <<>>

\* C10: at every exit of the frame loop (stop request or end of stream),
\* total_video_frames = frame_count = the number of frames processed, the stats
\* returned are those counters, and when main has finished, the report of
\* those stats has been printed (also for a run of no frame).
C10_CleanStop ==
    LoopExited =>
        /\ pc \in {"returned", "exit"}
        /\ stats.total_video_frames = frame_count
        /\ frame_count = Len(snaps)
        /\ final_stats = <<stats>>
        /\ pc = "exit" => report = <<PrintFinalReport(stats)>>

C10_Witness ==
    /\ exit_reason = "stop"
    /\ pc = "exit"
    /\ frame_count >= 1
    /\ mobile_in_hand_start_frame # -1
    /\ report = <<PrintFinalReport(stats)>>

\* The fraction `percent` printed for `counter` is 0 when no frame was
\* processed, else counter / total * 100, and no division by 0 was made.
PercentOf(percent, counter, total) ==
    /\ percent[2] # 0
    /\ total = 0 => percent[1] = 0
    /\ total > 0 => percent[1] * total = counter * 100 * percent[2]

\* C11: in the report main prints, with total_video_frames = 0 each of the
\* three percentages is 0 and no division by 0 is made, with fps = 0 every
\* duration is printed as 00:00:00, and with total_video_frames > 0 each
\* percentage is counter / total_video_frames * 100.
C11_ReportNoFrames ==
    (pc = "exit" /\ LoopExited) =>
        /\ Len(report) = 1
        /\ PercentOf(report[1].off_camera_percent, stats.off_camera_frames,
                     stats.total_video_frames)
        /\ PercentOf(report[1].mobile_percent, stats.mobile_in_hand_frames,
                     stats.total_video_frames)
        /\ PercentOf(report[1].working_percent, stats.working_frames,
                     stats.total_video_frames)
        /\ stats.current_fps = 0 =>
               /\ report[1].total_time = <<0, 0, 0>>
               /\ report[1].off_camera_time = <<0, 0, 0>>
               /\ report[1].mobile_time = <<0, 0, 0>>
               /\ report[1].working_time = <<0, 0, 0>>

C11_Witness ==
    /\ pc = "exit"
    /\ LoopExited
    /\ stats.total_video_frames = 0
    /\ stats.current_fps = 0
    /\ Len(report) = 1
    /\ report[1].off_camera_percent[1] = 0

\* C12: no duration computed in the frame loop divides by 0: no pass of the
\* loop ends in a raised ZeroDivisionError, whatever fps and target_fps are.
C12_NoDivisionByZero == pc # "raised"

\* A step that is one pass of the frame loop (also a pass cut short).
FrameStep == Len(snaps') = Len(snaps) + 1
\* The tracked conditions on the frame before the step's frame (false before
\* frame 0) and on the step's frame.
PrevMobile == Len(snaps) > 0 /\ snaps[Len(snaps)].mobile
PrevAbsent == Len(snaps) > 0 /\ ~snaps[Len(snaps)].person
NewMobile == snaps'[Len(snaps')].mobile
NewAbsent == ~snaps'[Len(snaps')].person
MobileStartOnEdgeOnly ==
    (mobile_in_hand_start_frame' # mobile_in_hand_start_frame) => (NewMobile # PrevMobile)
\* The step logs an alert; the frame before the step's frame logged one.
AlertInStep ==
    /\ Len(log') > Len(log)
    /\ log'[Len(log')].label = "person_missing_alert"
AlertOnPrevFrame ==
    /\ Len(log) > 0
    /\ log[Len(log)].label = "person_missing_alert"
    /\ log[Len(log)].frame = frame_count - 1

\* C13: the start frame of each tracker changes on frame i only if the
\* tracker's condition on frame i differs from its value on frame i - 1.
C13_EdgesOnly ==
    [][FrameStep =>
          /\ MobileStartOnEdgeOnly
          /\ (off_camera_start_frame' # off_camera_start_frame)
                 => (NewAbsent # PrevAbsent)]_vars

\* C13, amended: the mobile start frame changes only on an edge of
\* mobile_in_hand; the off-camera start frame changes only on an edge of
\* person-absent, or on a frame that logs a person_missing_alert (the reset
\* while the person is still absent), or on the frame after one (the restart).
C13_EdgesOrAlert ==
    [][FrameStep =>
          /\ MobileStartOnEdgeOnly
          /\ (off_camera_start_frame' # off_camera_start_frame)
                 => (NewAbsent # PrevAbsent \/ AlertInStep \/ AlertOnPrevFrame)]_vars

C13_Witness ==
    /\ alert_duration_frames >= 1
    /\ frame_count >= 2
    /\ ~Snap(frame_count - 2).person
    /\ ~Snap(frame_count - 1).person
    /\ off_camera_start_frame = frame_count - 1
    /\ Len(log) > 0
    /\ log[Len(log)] = Event("person_missing_alert", frame_count - 2, alert_duration_frames)

\* The last row of the log is an alert logged on the frame processed last.
AlertOnLastFrame ==
    /\ Len(log) > 0
    /\ Len(snaps) > 0
    /\ log[Len(log)].label = "person_missing_alert"
    /\ log[Len(log)].frame = Len(snaps) - 1

\* C14: every person_missing_alert row has a duration of exactly
\* alert_duration_frames frames (for every threshold >= 0), and after the
\* frame that logged it the off-camera tracker is reset to -1.
C14_AlertDurationIsThreshold ==
    /\ \A k \in 1 .. Len(log) :
           log[k].label = "person_missing_alert"
               => log[k].duration_frames = alert_duration_frames
    /\ AlertOnLastFrame => off_camera_start_frame = -1

C14_Witness ==
    /\ AlertOnLastFrame
    /\ alert_duration_frames >= 2
    /\ log[Len(log)].duration_frames = alert_duration_frames
    /\ off_camera_start_frame = -1

\* C15: a person_missing_alert is logged on frame i only if the person was
\* absent on frame i and on each of the alert_duration_frames frames before
\* it; and after a frame on which the person is present the off-camera
\* tracker is reset to -1 (an absence that ends below the threshold logs
\* nothing and leaves no trace).
C15_SilentRecovery ==
    /\ \A k \in 1 .. Len(log) :
           log[k].label = "person_missing_alert" =>
               /\ log[k].frame - alert_duration_frames >= 0
               /\ \A j \in (log[k].frame - alert_duration_frames) .. log[k].frame :
                      ~Snap(j).person
    /\ (Len(snaps) > 0 /\ snaps[Len(snaps)].person) => off_camera_start_frame = -1

C15_Witness ==
    /\ alert_duration_frames > FRAME_SKIP
    /\ frame_count = FRAME_SKIP + 1
    /\ \A j \in 0 .. (FRAME_SKIP - 1) : ~Snap(j).person
    /\ Snap(FRAME_SKIP).person
    /\ off_camera_start_frame = -1
    /\ Rows(AlertLabel, 0 .. frame_count) = {}

\* The step's pass gave the label `label` and added off, mob and work to the
\* three counters.
Labelled(label, off, mob, work) ==
    /\ current_activity' = label
    /\ stats'.off_camera_frames = stats.off_camera_frames + off
    /\ stats'.mobile_in_hand_frames = stats.mobile_in_hand_frames + mob
    /\ stats'.working_frames = stats.working_frames + work

\* C16: on every frame processed to the end, the label and the counter that
\* grows are given by the frame's snapshot alone, first match wins: person
\* absent, else phone in hand, else laptop or keyboard, else idle with no
\* counter but the total growing.
C16_Hierarchy ==
    [][(FrameStep /\ frame_count' = frame_count + 1) =>
          /\ stats'.total_video_frames = stats.total_video_frames + 1
          /\ stats'.current_fps = stats.current_fps
          /\ LET snap == snaps'[Len(snaps')]
             IN  /\ ~snap.person => Labelled("Off-Camera/Missing", 1, 0, 0)
                 /\ (snap.person /\ snap.mobile)
                        => Labelled("Using Mobile Phone", 0, 1, 0)
                 /\ (snap.person /\ ~snap.mobile /\ snap.laptop)
                        => Labelled("Working on Laptop", 0, 0, 1)
                 /\ (snap.person /\ ~snap.mobile /\ ~snap.laptop)
                        => Labelled("Present (Idle/Other)", 0, 0, 0)]_vars

C16_Witness ==
    /\ frame_count >= 1
    /\ frame_count = Len(snaps)
    /\ Snap(frame_count - 1).person
    /\ Snap(frame_count - 1).mobile
    /\ Snap(frame_count - 1).laptop
    /\ current_activity = "Using Mobile Phone"
    /\ stats.working_frames = 0
    /\ stats.mobile_in_hand_frames = frame_count

\* The three conditions of a pair, stated on the boxes: the mobile centre x
\* within 0.6 x the person width of the person centre x, a positive overlap,
\* and the mobile centre y below the line 20% down the person box; the line
\* taken exactly, py1 + 0.2 * (py2 - py1), or truncated to a whole pixel as
\* py1 + int(0.2 * (py2 - py1)).
CentresClose(p_box, m_box) ==
    5 * Abs((m_box[1] + m_box[3]) - (p_box[1] + p_box[3])) < 6 * (p_box[3] - p_box[1])
BelowExactLine(p_box, m_box) ==
    5 * (m_box[2] + m_box[4]) > 10 * p_box[2] + 2 * (p_box[4] - p_box[2])
BelowPixelLine(p_box, m_box) ==
    m_box[2] + m_box[4] > 2 * (p_box[2] + ((p_box[4] - p_box[2]) \div 5))
QualifiesExact(p_box, m_box) ==
    CentresClose(p_box, m_box) /\ BelowExactLine(p_box, m_box)
    /\ PositiveIntersection(p_box, m_box)
QualifiesPixel(p_box, m_box) ==
    CentresClose(p_box, m_box) /\ BelowPixelLine(p_box, m_box)
    /\ PositiveIntersection(p_box, m_box)

\* The detection lists that hold the detections of `res` in another order.
Reorderings(res) ==
    {[i \in 1 .. Len(res) |-> res[f[i]]] :
        f \in {g \in [1 .. Len(res) -> 1 .. Len(res)] :
                 \A a, b \in 1 .. Len(res) : g[a] = g[b] => a = b}}
OrderIndependent == \A other \in Reorderings(results) : Detect(other).mobile = last_mobile_in_hand

\* C17: the detector run stores mobile_in_hand true if and only if some
\* (person, mobile) pair of the detections satisfies the three conditions,
\* with the line exactly 20% down the person box, and the result is the same
\* for every order of the detections.
C17_ExistentialExactLine ==
    pc = "detected" =>
        /\ last_mobile_in_hand <=>
               \E i \in 1 .. Len(results), j \in 1 .. Len(results) :
                   /\ results[i].cls = PERSON_CLASS_ID
                   /\ results[j].cls = MOBILE_CLASS_ID
                   /\ QualifiesExact(results[i].box, results[j].box)
        /\ OrderIndependent

\* C17, amended: the same, with the line 20% down the person box truncated to
\* a whole pixel, py1 + int(0.2 * height).
C17_ExistentialPixelLine ==
    pc = "detected" =>
        /\ last_mobile_in_hand <=>
               \E i \in 1 .. Len(results), j \in 1 .. Len(results) :
                   /\ results[i].cls = PERSON_CLASS_ID
                   /\ results[j].cls = MOBILE_CLASS_ID
                   /\ QualifiesPixel(results[i].box, results[j].box)
        /\ OrderIndependent

\* The first person and the first phone of the list do not qualify, a later
\* pair does.
C17_Witness ==
    /\ pc = "detected"
    /\ Len(results) = 3
    /\ last_mobile_in_hand
    /\ \E i \in 1 .. 3, j \in 1 .. 3 :
           /\ results[i].cls = PERSON_CLASS_ID
           /\ results[j].cls = MOBILE_CLASS_ID
           /\ \A k \in 1 .. (i - 1) : results[k].cls # PERSON_CLASS_ID
           /\ \A k \in 1 .. (j - 1) : results[k].cls # MOBILE_CLASS_ID
           /\ ~QualifiesPixel(results[i].box, results[j].box)

\* The step's frame logs the end of a phone-in-hand run.
MobileEndInStep ==
    \E k \in (Len(log) + 1) .. Len(log') :
        log'[k].label = "mobile_in_hand_end" /\ log'[k].frame = frame_count

\* C18: in every snapshot mobile_in_hand implies person_present; so, on a run
\* that has not raised, mobile_in_hand_frames is the number of processed
\* frames whose snapshot has mobile_in_hand, and a pass on a frame with the
\* person absent ends an active mobile tracker, logging mobile_in_hand_end on
\* that frame.
C18_MobileImpliesPerson ==
    /\ [](/\ \A i \in 1 .. Len(snaps) : snaps[i].mobile => snaps[i].person
          /\ pc # "raised" =>
                 stats.mobile_in_hand_frames
                     = Cardinality({i \in 0 .. (frame_count - 1) : Snap(i).mobile}))
    /\ [][(FrameStep /\ pc' # "raised" /\ mobile_in_hand_start_frame # -1 /\ NewAbsent)
              => (mobile_in_hand_start_frame' = -1 /\ MobileEndInStep)]_vars

\* A phone-in-hand run was counted and ended on a frame with the person absent.
C18_Witness ==
    /\ pc # "raised"
    /\ stats.mobile_in_hand_frames > 1
    /\ mobile_in_hand_start_frame = -1
    /\ \E k \in 1 .. Len(log) :
           /\ log[k].label = "mobile_in_hand_end"
           /\ log[k].frame < frame_count
           /\ ~Snap(log[k].frame).person

\* C19: before the first frame both trackers are inactive; at the end of every
\* processed frame the mobile tracker is active exactly when the frame's
\* snapshot has mobile_in_hand, the off-camera tracker is active only when
\* the frame's snapshot has no person, an active tracker's start frame lies
\* between 0 and the frame's index, and every logged duration is >= 0.
C19_TrackersFollowSnapshot ==
    /\ (pc # "raised" /\ frame_count = 0) =>
           (mobile_in_hand_start_frame = -1 /\ off_camera_start_frame = -1)
    /\ (pc # "raised" /\ frame_count > 0) =>
           /\ (mobile_in_hand_start_frame # -1) <=> Snap(frame_count - 1).mobile
           /\ (off_camera_start_frame # -1) => ~Snap(frame_count - 1).person
           /\ mobile_in_hand_start_frame \in -1 .. (frame_count - 1)
           /\ off_camera_start_frame \in -1 .. (frame_count - 1)
    /\ \A k \in 1 .. Len(log) : log[k].duration_frames >= 0

\* The mobile tracker has been active for more than one frame, after an event
\* with a positive duration.
C19_Witness ==
    /\ pc = "loop"
    /\ mobile_in_hand_start_frame # -1
    /\ mobile_in_hand_start_frame < frame_count - 1
    /\ \E k \in 1 .. Len(log) : log[k].duration_frames > 0

\* C20: when alert_duration_frames >= 1, at most one event is logged per
\* frame: the frames of the log's rows are strictly increasing, so a mobile
\* event and a person_missing_alert never share a frame.
C20_OneEventPerFrame ==
    alert_duration_frames >= 1 =>
        \A k \in 1 .. (Len(log) - 1) : log[k].frame < log[k + 1].frame

\* With a threshold of at least one frame, a phone-in-hand run ended on the
\* frame the person left, and an alert followed on a later frame.
C20_Witness ==
    /\ alert_duration_frames >= 1
    /\ \E k \in 1 .. (Len(log) - 1) :
           /\ log[k].label = "mobile_in_hand_end"
           /\ ~Snap(log[k].frame).person
           /\ log[k + 1].label = "person_missing_alert"

====
